---- MODULE Spec2Model ----
(***************************************************************************)
(* Model of the competency-report application (src/app.py, and its PNG     *)
(* variant src/app4.py).                                                    *)
(*                                                                          *)
(* Texts whose characters matter (names, classes, cell texts, file names)  *)
(* are sequences of one-character strings.  Column headers and sheet names *)
(* are only ever compared for equality and are plain strings.              *)
(*                                                                          *)
(* A DataFrame is a record [columns, rows]: columns is the sequence of     *)
(* column labels, rows the sequence of rows, each row a sequence of cells  *)
(* parallel to columns.  Column labels of one sheet are pairwise distinct  *)
(* (pandas.read_excel de-duplicates headers), and the area headers of the  *)
(* modelled workbooks differ from the two canonical labels, so a frame     *)
(* never carries one label twice.                                          *)
(***************************************************************************)
EXTENDS Integers, Sequences, FiniteSets, TLC

VARIABLES
    call,           \* the function applied last and its arguments (pure-function runs)
    ret,            \* what that call returned
    app,            \* the script the session runs: "app.py" or "app4.py"
    file,           \* the workbook the user has at hand to upload
    uploaded,       \* value of the file uploader: None or Some(workbook)
    view_mode,      \* radio "Nezet"
    selected_class, \* selectbox "Osztaly szures"
    export_scope,   \* radio "zip_scope"
    session_state,  \* st.session_state: key -> value, for the zip_* keys
    run             \* what the last script run computed and showed

pureVars == <<call, ret>>
sessionVars ==
    <<app, file, uploaded, view_mode, selected_class, export_scope,
      session_state, run>>
vars == <<call, ret, app, file, uploaded, view_mode, selected_class,
          export_scope, session_state, run>>

----------------------------------------------------------------------------
(* Bounds of the model *)

MaxSheets == 3      \* sheets in an uploaded workbook
MaxAreas == 2       \* area columns on one sheet
MaxRows == 2        \* data rows of a table handed to to_long_percent
MaxLen == 4         \* characters of a text handed to safe_filename
MaxStudents == 2    \* data rows of a sheet of an uploaded workbook

----------------------------------------------------------------------------
(* Generic helpers *)

Range(s) == {s[i] : i \in DOMAIN s}

IsInjective(s) == \A i, j \in DOMAIN s : s[i] = s[j] => i = j

InjectiveSeqs(S, n) ==
    UNION {{s \in [1..k -> S] : IsInjective(s)} : k \in 0..n}

\* [f(x) for x in s if p(x)] -- the list comprehension with a filter
RECURSIVE SelectSeqBy(_, _)
SelectSeqBy(s, keep) ==
    IF s = <<>> THEN <<>>
    ELSE (IF Head(s) \in keep THEN <<Head(s)>> ELSE <<>>)
         \o SelectSeqBy(Tail(s), keep)

\* position of the first column labelled l (0 when there is none)
IndexOf(s, l) ==
    IF \E i \in DOMAIN s : s[i] = l
    THEN CHOOSE i \in DOMAIN s : s[i] = l /\ \A j \in 1..(i - 1) : s[j] # l
    ELSE 0


\* lexicographic order on sequences of integers; a proper prefix is smaller
RECURSIVE IntSeqLess(_, _)
IntSeqLess(s, t) ==
    IF t = <<>> THEN FALSE
    ELSE IF s = <<>> THEN TRUE
    ELSE IF Head(s) # Head(t) THEN Head(s) < Head(t)
    ELSE IntSeqLess(Tail(s), Tail(t))

\* lexicographic order on tuples of such sequences (a sort on several columns)
RECURSIVE RankLess(_, _)
RankLess(a, b) ==
    IF a = <<>> \/ b = <<>> THEN FALSE
    ELSE IF Head(a) # Head(b) THEN IntSeqLess(Head(a), Head(b))
    ELSE RankLess(Tail(a), Tail(b))

\* the items of a set of [item, rank] records, in ascending rank order
RECURSIVE SortByRank(_)
SortByRank(S) ==
    IF S = {} THEN <<>>
    ELSE LET m == CHOOSE x \in S : \A y \in S : ~RankLess(y.rank, x.rank)
         IN <<m.item>> \o SortByRank(S \ {m})

\* Python compares strings by code point.  The characters of the model, in
\* code point order; an accented letter is written as its code point.
SortedChars ==
    <<"\t", " ", "!", "-", ".", "/",
      "0", "1", "2", "3", "4", "5", "6", "7", "8", "9",
      "A", "B", "C", "D", "E", "F", "G", "H", "I", "J", "K", "L", "M",
      "N", "O", "P", "Q", "R", "S", "T", "U", "V", "W", "X", "Y", "Z",
      "_",
      "a", "b", "c", "d", "e", "f", "g", "h", "i", "j", "k", "l", "m",
      "n", "o", "p", "q", "r", "s", "t", "u", "v", "w", "x", "y", "z",
      "U+00C1", "U+00C9", "U+00CD", "U+00D3", "U+00D6", "U+00DA", "U+00DC",
      "U+00E1", "U+00E4", "U+00E9", "U+00ED", "U+00F3", "U+00F6", "U+00FA",
      "U+00FC", "U+0150", "U+0151", "U+0170", "U+0171">>

\* the position of every character in that order
CharRank ==
    [c \in Range(SortedChars) |->
        CHOOSE i \in DOMAIN SortedChars : SortedChars[i] = c]

TextRank(t) == [i \in DOMAIN t |-> CharRank[t[i]]]

\* the sheet names and area labels of the model, in code point order
SortedLabels ==
    <<"2024 osz", "2025 tavasz", "Archiv", "Empatia", "Jegyzet", "Kitartas",
      "Onismeret">>

LabelRank(l) == <<CHOOSE i \in DOMAIN SortedLabels : SortedLabels[i] = l>>

----------------------------------------------------------------------------
(* Cells and frames *)

NumCell(n) == [kind |-> "number", text |-> <<>>, value |-> n]
TextCell(t) == [kind |-> "text", text |-> t, value |-> 0]
EmptyCell == [kind |-> "empty", text |-> <<>>, value |-> 0]

\* the canonical labels of the identity columns (written without accents)
NEV == "Nev"
OSZTALY == "Osztaly"

\* df[labels]: the frame restricted to the listed columns, in the listed order
SelectColumns(df, labels) ==
    [columns |-> labels,
     rows |-> [r \in DOMAIN df.rows |->
                  [k \in DOMAIN labels |-> df.rows[r][IndexOf(df.columns, labels[k])]]]]

\* df.rename(columns=mapping): every label in the mapping's domain is replaced
RenameColumns(df, mapping) ==
    [df EXCEPT !.columns =
        [k \in DOMAIN df.columns |->
            IF df.columns[k] \in DOMAIN mapping
            THEN mapping[df.columns[k]] ELSE df.columns[k]]]

\* Optional[DataFrame]: None is the empty sequence, a frame is a singleton
None == <<>>
Some(x) == <<x>>


----------------------------------------------------------------------------
(* Widgets and the state of a session before its first script run *)

VIEW_STUDENT == "Egy tanulo"
VIEW_CLASS == "Osztalyatlag"
VIEW_ALL == "Osszes atlag"
ViewModes == {VIEW_STUDENT, VIEW_CLASS, VIEW_ALL}

\* the first option of the class filter, "(mind)": no filtering
MIND == [kind |-> "all", text |-> <<>>, value |-> 0]

SCOPE_FILTERED == "Minden tanulo (aktualis osztaly-szuressel)"
SCOPE_ALL == "Minden tanulo (minden osztaly)"
ExportScopes == {SCOPE_FILTERED, SCOPE_ALL}

\* no script run yet
NoRun == [stage |-> "not_run"]

\* an empty st.session_state
NoKeys == [k \in {} |-> FALSE]

SessionIdle ==
    /\ app = "app.py"
    /\ file = <<>>
    /\ uploaded = None
    /\ view_mode = VIEW_STUDENT
    /\ selected_class = MIND
    /\ export_scope = SCOPE_FILTERED
    /\ session_state = NoKeys
    /\ run = NoRun

----------------------------------------------------------------------------
(* read_two_periods *)

\* pd.ExcelFile(...).sheet_names
sheet_names(xlsx) == [i \in DOMAIN xlsx |-> xlsx[i].name]

\* pd.read_excel(xls, sheet_name=...)
read_excel(xlsx, i) == [columns |-> xlsx[i].columns, rows |-> xlsx[i].rows]

Raise(msg) ==
    [ok |-> FALSE, error |-> msg, df1 |-> None, df2 |-> None,
     areas |-> <<>>, period_labels |-> <<>>]

Return(d1, d2, ar, labels) ==
    [ok |-> TRUE, error |-> "", df1 |-> Some(d1), df2 |-> d2,
     areas |-> ar, period_labels |-> labels]

\* every column after the second but the last one
AreaColumnsButLast(df) == SubSeq(df.columns, 3, Len(df.columns) - 1)

\* columns[2:] of a frame
AreaColumns(df) == SubSeq(df.columns, 3, Len(df.columns))

\* the first sheet, cut to [name, class] + areas and renamed (lines 44-49)
PeriodOneFrame(raw) ==
    RenameColumns(
        SelectColumns(raw, <<raw.columns[1], raw.columns[2]>> \o AreaColumns(raw)),
        (raw.columns[1] :> NEV) @@ (raw.columns[2] :> OSZTALY))

\* the areas of the second sheet that the first has, in the second's order
CommonAreasSheetTwoOrder(areas1, areas2) == SelectSeqBy(areas2, Range(areas1))

\* [a for a in areas if a in areas2] (line 58)
CommonAreas(areas1, areas2) == SelectSeqBy(areas1, Range(areas2))

\* the second sheet, cut to [name, class] + common areas and renamed (63-64)
PeriodTwoFrame(raw, common) ==
    RenameColumns(
        SelectColumns(raw, <<raw.columns[1], raw.columns[2]>> \o common),
        (raw.columns[1] :> NEV) @@ (raw.columns[2] :> OSZTALY))

\* the second sheet read without the test for an empty intersection
ReadSecondSheetAcceptingDisjoint(xlsx, d1, areas1, period_labels) ==
    LET raw2 == read_excel(xlsx, 2) IN
    IF Len(raw2.columns) < 3
    THEN Raise("masodik munkalap: legalabb 3 oszlop kell")
    ELSE
      LET common_areas == CommonAreas(areas1, AreaColumns(raw2)) IN
      Return(d1, Some(PeriodTwoFrame(raw2, common_areas)),
             common_areas, period_labels)

\* lines 52-66: the second sheet, its column count, the common areas
ReadSecondSheet(xlsx, d1, areas1, period_labels) ==
    LET raw2 == read_excel(xlsx, 2) IN
    IF Len(raw2.columns) < 3
    THEN Raise("masodik munkalap: legalabb 3 oszlop kell")
    ELSE
      LET common_areas == CommonAreas(areas1, AreaColumns(raw2)) IN
      IF common_areas = <<>> THEN Raise("nincs kozos terulet")
      ELSE Return(d1, Some(PeriodTwoFrame(raw2, common_areas)),
                  common_areas, period_labels)

read_two_periods(xlsx) ==
    LET sheets == sheet_names(xlsx) IN
    IF Len(sheets) < 1 THEN Raise("nincs munkalap")
    ELSE
      LET raw1 == read_excel(xlsx, 1)
          two == Len(sheets) >= 2
          period_labels == IF two THEN <<sheets[1], sheets[2]>> ELSE <<sheets[1]>>
      IN
      IF Len(raw1.columns) < 3 THEN Raise("elso munkalap: legalabb 3 oszlop kell")
      ELSE
        LET areas1 == AreaColumns(raw1)
            d1 == PeriodOneFrame(raw1)
        IN
        IF ~two THEN Return(d1, None, areas1, period_labels)
        ELSE ReadSecondSheet(xlsx, d1, areas1, period_labels)

----------------------------------------------------------------------------
(* Workbooks the reader is applied to *)

SheetNames == {"2024 osz", "2025 tavasz", "Jegyzet", "Archiv"}

AreaLabels == {"Empatia", "Onismeret", "Kitartas"}

\* header texts of the two identity columns; the last pair reuses an area
\* label as the name header, the third swaps the canonical labels
IdHeaders ==
    {<<"Nev", "Osztaly">>, <<"Tanulo", "Csoport">>, <<"Osztaly", "Nev">>,
     <<"Empatia", "Osztaly">>}

\* header rows as read_excel yields them: pairwise distinct labels
HeaderRows ==
    {<<>>} \cup {<<h[1]>> : h \in IdHeaders} \cup IdHeaders
    \cup {h \o a : h \in IdHeaders,
                   a \in {s \in InjectiveSeqs(AreaLabels, MaxAreas) :
                             s # <<>>}}

WellFormedHeader(cols) == IsInjective(cols)

\* one data row whose cell in column k holds the number 10 * sheet + k, so a
\* cell tells which sheet and column it was read from
TaggedRow(sheet, cols) == [k \in DOMAIN cols |-> NumCell(10 * sheet + k)]

TaggedSheet(i, name, cols) ==
    [name |-> name, columns |-> cols, rows |-> <<TaggedRow(i, cols)>>]

ValidHeaderRows == {h \in HeaderRows : WellFormedHeader(h)}

SheetNameLists == InjectiveSeqs(SheetNames, MaxSheets)

\* sheets past the second are never read: they all carry this header row
IgnoredHeader == <<"Nev", "Osztaly", "Empatia">>

ReaderWorkbook(ns, c1, c2) ==
    [i \in 1..Len(ns) |->
        TaggedSheet(i, ns[i],
                    IF i = 1 THEN c1 ELSE IF i = 2 THEN c2 ELSE IgnoredHeader)]

NoCall == [fn |-> "none"]

InitRead ==
    /\ \E ns \in SheetNameLists, c1 \in ValidHeaderRows, c2 \in ValidHeaderRows :
          /\ Len(ns) < 2 => c2 = <<>>
          /\ Len(ns) < 1 => c1 = <<>>
          /\ call = [fn |-> "workbook", xlsx |-> ReaderWorkbook(ns, c1, c2)]
    /\ ret = NoCall
    /\ SessionIdle

ReadTwoPeriods ==
    /\ call.fn = "workbook"
    /\ call' = [fn |-> "read_two_periods", xlsx |-> call.xlsx]
    /\ ret' = read_two_periods(call.xlsx)
    /\ UNCHANGED sessionVars

NextRead == ReadTwoPeriods

SpecRead == InitRead /\ [][NextRead]_vars

----------------------------------------------------------------------------
(* Claims about read_two_periods *)

ReadDone == call.fn = "read_two_periods"

\* the area columns of sheet i of the workbook just read, as a set, and the
\* position of a label on that sheet
SheetAreaSet(i) ==
    {call.xlsx[i].columns[k] : k \in 3..Len(call.xlsx[i].columns)}

SheetPos(i, l) == IndexOf(call.xlsx[i].columns, l)

\* C1: for an accepted workbook with two or more sheets the returned area
\* list holds exactly the labels that are area columns of sheet 1 and of
\* sheet 2, each once, in the order they have on sheet 1.
C1_AreasAreOrderedIntersection ==
    (ReadDone /\ Len(call.xlsx) >= 2 /\ ret.ok) =>
        /\ Range(ret.areas) = SheetAreaSet(1) \cap SheetAreaSet(2)
        /\ \A i, j \in DOMAIN ret.areas :
              i < j => SheetPos(1, ret.areas[i]) < SheetPos(1, ret.areas[j])

\* an accepted two-sheet workbook where each sheet has an area the other
\* lacks, so the intersection drops a column of either sheet
C1_Witness ==
    /\ ReadDone /\ Len(call.xlsx) >= 2 /\ ret.ok
    /\ SheetAreaSet(1) \ SheetAreaSet(2) # {}
    /\ SheetAreaSet(2) \ SheetAreaSet(1) # {}
    /\ ret.areas # <<>>

ReturnedTables == Range(ret.df1) \cup Range(ret.df2)

\* C2: after a successful read every returned period table has exactly the
\* columns Name, Class and then the returned area list, in that order.
C2_TablesHaveExactlyEffectiveAreas ==
    (ReadDone /\ ret.ok) =>
        \A df \in ReturnedTables : df.columns = <<NEV, OSZTALY>> \o ret.areas

\* a two-sheet workbook whose first sheet has an area the second lacks, read
\* successfully: the Period 1 table still has that area's column
C2_Witness ==
    /\ ReadDone /\ ret.ok
    /\ Len(call.xlsx) >= 2
    /\ SheetAreaSet(1) \ SheetAreaSet(2) # {}
    /\ ret.df1[1].columns # <<NEV, OSZTALY>> \o ret.areas
    /\ ret.df2[1].columns = <<NEV, OSZTALY>> \o ret.areas

----------------------------------------------------------------------------
(* Numbers: a score or a percentage is a reduced fraction num/den with     *)
(* den > 0; NaN, the missing marker, is the record with den = 0.           *)

RECURSIVE GCD(_, _)
GCD(a, b) == IF b = 0 THEN a ELSE GCD(b, a % b)

Rat(n, d) == LET g == GCD(n, d) IN [num |-> n \div g, den |-> d \div g]

NaN == [num |-> 0, den |-> 0]

IsNaN(x) == x.den = 0

\* x / k and x * k for a positive integer k; NaN propagates
RatDivInt(x, k) == IF IsNaN(x) THEN NaN ELSE Rat(x.num, x.den * k)
RatMulInt(x, k) == IF IsNaN(x) THEN NaN ELSE Rat(x.num * k, x.den)

RatAdd(x, y) == Rat(x.num * y.den + y.num * x.den, x.den * y.den)

----------------------------------------------------------------------------
(* to_long_percent *)

MAX_POINTS == 70

Digits == {"0", "1", "2", "3", "4", "5", "6", "7", "8", "9"}

DigitValue(c) ==
    CASE c = "0" -> 0 [] c = "1" -> 1 [] c = "2" -> 2 [] c = "3" -> 3
      [] c = "4" -> 4 [] c = "5" -> 5 [] c = "6" -> 6 [] c = "7" -> 7
      [] c = "8" -> 8 [] c = "9" -> 9

RECURSIVE DecimalValue(_)
DecimalValue(t) ==
    IF t = <<>> THEN 0
    ELSE 10 * DecimalValue(SubSeq(t, 1, Len(t) - 1)) + DigitValue(t[Len(t)])

\* the texts of the model that parse as a number are the digit strings
ParsesAsNumber(t) == t # <<>> /\ \A i \in DOMAIN t : t[i] \in Digits

\* pd.to_numeric(..., errors="coerce") on one cell, with every unparseable
\* cell turned into 0 instead of NaN
to_numeric_errors_as_zero(cell) ==
    CASE cell.kind = "number" -> Rat(cell.value, 1)
      [] cell.kind = "text" ->
            IF ParsesAsNumber(cell.text) THEN Rat(DecimalValue(cell.text), 1)
            ELSE Rat(0, 1)
      [] OTHER -> Rat(0, 1)

\* pd.to_numeric(..., errors="coerce") on one cell
to_numeric(cell) ==
    CASE cell.kind = "number" -> Rat(cell.value, 1)
      [] cell.kind = "text" ->
            IF ParsesAsNumber(cell.text) THEN Rat(DecimalValue(cell.text), 1)
            ELSE NaN
      [] OTHER -> NaN

\* (long["Pont"] / MAX_POINTS) * 100
Percent(pont) == RatMulInt(RatDivInt(pont, MAX_POINTS), 100)

\* the record melt makes of row r and area a of the frame
MeltRecord(df, r, a, period) ==
    LET pont == to_numeric(df.rows[r][IndexOf(df.columns, a)]) IN
    [Nev |-> df.rows[r][IndexOf(df.columns, NEV)],
     Osztaly |-> df.rows[r][IndexOf(df.columns, OSZTALY)],
     Terulet |-> a,
     Pont |-> pont,
     Idoszak |-> period,
     Szazalek |-> Percent(pont)]

\* melt that leaves out the records whose score is missing
MeltDroppingMissing(df, period, areas) ==
    LET R == Len(df.rows)
        all == [k \in 1..(R * Len(areas)) |->
                   MeltRecord(df, ((k - 1) % R) + 1,
                              areas[((k - 1) \div R) + 1], period)]
    IN SelectSeq(all, LAMBDA rec : ~IsNaN(rec.Pont))

\* melt with id_vars Name, Class and value_vars areas: the rows of the first
\* area in row order, then the rows of the second area, and so on
Melt(df, period, areas) ==
    LET R == Len(df.rows) IN
    [k \in 1..(R * Len(areas)) |->
        MeltRecord(df, ((k - 1) % R) + 1, areas[((k - 1) \div R) + 1], period)]

to_long_percent(df, period, areas) == Melt(df, period, areas)


\* lines 207-211 of main: the long form of period 1, followed by the long form
\* of period 2 when there is a second table
LongAll(d1, d2, areas, periods) ==
    to_long_percent(d1, periods[1], areas)
    \o (IF d2 = None THEN <<>> ELSE to_long_percent(d2[1], periods[2], areas))

----------------------------------------------------------------------------
(* avg_view *)

OSSZES == "Osszes"
OSZTALY_LEVEL == "Osztaly"

\* the grouping key of a record; at the overall level the class is left out
GroupKey(rec, level) ==
    IF level = OSSZES
    THEN [Idoszak |-> rec.Idoszak, Osztaly |-> EmptyCell, Terulet |-> rec.Terulet]
    ELSE [Idoszak |-> rec.Idoszak, Osztaly |-> rec.Osztaly, Terulet |-> rec.Terulet]

\* groupby leaves out the records with a missing value in a key column
HasKey(rec, level) == level = OSSZES \/ rec.Osztaly.kind # "empty"

KeyRank(key) ==
    <<LabelRank(key.Idoszak), TextRank(key.Osztaly.text), LabelRank(key.Terulet)>>

RECURSIVE RatSum(_)
RatSum(xs) == IF xs = <<>> THEN Rat(0, 1) ELSE RatAdd(Head(xs), RatSum(Tail(xs)))

\* a mean that counts a missing value as 0 (fillna(0) before the mean)
MeanMissingAsZero(xs) ==
    IF xs = <<>> THEN NaN
    ELSE RatDivInt(RatSum(SelectSeq(xs, LAMBDA x : ~IsNaN(x))), Len(xs))

\* Series.mean(): missing values are skipped; no value left gives NaN
Mean(xs) ==
    LET present == SelectSeq(xs, LAMBDA x : ~IsNaN(x)) IN
    IF present = <<>> THEN NaN ELSE RatDivInt(RatSum(present), Len(present))

\* the records a group's mean is taken over, all classes thrown together
GroupMembersAnyClass(long_df, key, level) ==
    SelectSeq(long_df, LAMBDA rec :
        HasKey(rec, level) /\ rec.Idoszak = key.Idoszak /\ rec.Terulet = key.Terulet)

\* the records a group's mean is taken over
GroupMembers(long_df, key, level) ==
    SelectSeq(long_df, LAMBDA rec : HasKey(rec, level) /\ GroupKey(rec, level) = key)

Percentages(recs) == [i \in DOMAIN recs |-> recs[i].Szazalek]

\* groupby(keys, as_index=False)["Szazalek"].mean(): one row per key, in
\* ascending key order
avg_view(long_df, level) ==
    LET keys == {GroupKey(long_df[i], level) :
                    i \in {j \in DOMAIN long_df : HasKey(long_df[j], level)}}
        sorted == SortByRank({[item |-> k, rank |-> KeyRank(k)] : k \in keys})
    IN [i \in DOMAIN sorted |->
           [Idoszak |-> sorted[i].Idoszak,
            Osztaly |-> sorted[i].Osztaly,
            Terulet |-> sorted[i].Terulet,
            Szazalek |-> Mean(Percentages(GroupMembers(long_df, sorted[i], level)))]]

----------------------------------------------------------------------------
(* Tables to_long_percent is applied to *)

TableAreas == <<"Empatia", "Onismeret">>

\* area lists handed over with the table: one that leaves a column of the
\* table out, the full list, and the full list in the other order
AreaLists ==
    {<<"Empatia">>, <<"Empatia", "Onismeret">>, <<"Onismeret", "Empatia">>}

Anna == TextCell(<<"A", "n", "n", "a">>)
Bela == TextCell(<<"B", "e", "l", "a">>)
Class5a == TextCell(<<"5", "a">>)
Class6b == TextCell(<<"6", "b">>)

\* (name, class) of a row: one name in two classes, and a student with no
\* class entered
Identities == {<<Anna, Class5a>>, <<Anna, Class6b>>, <<Bela, EmptyCell>>}

\* what a score cell may hold: numbers, a number typed as text, a text that
\* is no number, nothing
ScoreCells ==
    {NumCell(0), NumCell(35), NumCell(70), TextCell(<<"2", "1">>),
     TextCell(<<"N", "/", "A">>), EmptyCell}

\* the cell of the second area column that goes with each first cell
SecondScoreCells ==
    [c \in ScoreCells |->
        IF c \in {NumCell(35), TextCell(<<"N", "/", "A">>)}
        THEN TextCell(<<"N", "/", "A">>) ELSE NumCell(70)]

WideRows == {id \o <<c, SecondScoreCells[c]>> : id \in Identities, c \in ScoreCells}

WideColumns == <<NEV, OSZTALY>> \o TableAreas

InitLong ==
    /\ \E n \in 0..MaxRows, areas \in AreaLists, period \in {"2024 osz"} :
         \E rows \in [1..n -> WideRows] :
            call = [fn |-> "table",
                    df |-> [columns |-> WideColumns, rows |-> rows],
                    period |-> period, areas |-> areas]
    /\ ret = NoCall
    /\ SessionIdle

ToLongPercent ==
    /\ call.fn = "table"
    /\ call' = [call EXCEPT !.fn = "to_long_percent"]
    /\ ret' = to_long_percent(call.df, call.period, call.areas)
    /\ UNCHANGED sessionVars

\* the table of a second period that main may concatenate before averaging
SecondPeriodTable ==
    [columns |-> WideColumns,
     rows |-> <<<<Anna, Class5a, NumCell(70), NumCell(35)>>,
                <<Bela, Class6b, EmptyCell, NumCell(0)>>>>]

AvgView ==
    /\ call.fn = "to_long_percent"
    /\ \E level \in {OSSZES, OSZTALY_LEVEL}, d2 \in {None, Some(SecondPeriodTable)} :
          LET long_df == LongAll(call.df, d2, call.areas,
                                 <<call.period, "2025 tavasz">>)
          IN /\ call' = [fn |-> "avg_view", long_df |-> long_df, level |-> level]
             /\ ret' = avg_view(long_df, level)
    /\ UNCHANGED sessionVars

NextLong == ToLongPercent \/ AvgView

SpecLong == InitLong /\ [][NextLong]_vars

----------------------------------------------------------------------------
(* Claims about to_long_percent *)

LongDone == call.fn = "to_long_percent"

\* the cell of the input table that record k of the result was made from
SourceRow(k) == ((k - 1) % Len(call.df.rows)) + 1
SourceArea(k) == call.areas[((k - 1) \div Len(call.df.rows)) + 1]
SourceCell(k) ==
    call.df.rows[SourceRow(k)][IndexOf(call.df.columns, SourceArea(k))]

Unparseable(cell) ==
    \/ cell.kind = "empty"
    \/ cell.kind = "text" /\ \E i \in DOMAIN cell.text : cell.text[i] \notin Digits

\* C5: a record with a numeric raw score r has the percent score r / 70 * 100
\* (as fractions: percent * 70 = r * 100), and a record made from a cell that
\* is no number has the missing marker as raw score and as percent score.
C5_PercentIsScoreOverSeventy ==
    LongDone =>
        \A k \in DOMAIN ret :
            /\ ~IsNaN(ret[k].Pont) =>
                  /\ ~IsNaN(ret[k].Szazalek)
                  /\ ret[k].Szazalek.num * 70 * ret[k].Pont.den
                       = ret[k].Pont.num * 100 * ret[k].Szazalek.den
            /\ Unparseable(SourceCell(k)) =>
                  IsNaN(ret[k].Pont) /\ IsNaN(ret[k].Szazalek)

\* a result holding a record with raw score 35 and percent 50 next to a
\* record made from a text cell that is no number
C5_Witness ==
    /\ LongDone
    /\ \E k \in DOMAIN ret :
          ret[k].Pont = Rat(35, 1) /\ ret[k].Szazalek = Rat(50, 1)
    /\ \E k \in DOMAIN ret :
          SourceCell(k).kind = "text" /\ IsNaN(ret[k].Szazalek)

\* C6: a table of R rows and a list of A areas give R * A records; the record
\* of row r and the a-th area carries the row's Name and Class, the area's
\* label and the period label; no record is labelled with another column.
C6_OneRecordPerRowAndArea ==
    LongDone =>
        LET R == Len(call.df.rows)
            A == Len(call.areas)
        IN /\ Len(ret) = R * A
           /\ \A r \in 1..R, a \in 1..A :
                LET rec == ret[(a - 1) * R + r] IN
                /\ rec.Nev = call.df.rows[r][1]
                /\ rec.Osztaly = call.df.rows[r][2]
                /\ rec.Terulet = call.areas[a]
                /\ rec.Idoszak = call.period
           /\ \A k \in DOMAIN ret : ret[k].Terulet \in Range(call.areas)

\* two rows, one of them with a cell that is no number, and an area list that
\* leaves a column of the table out
C6_Witness ==
    /\ LongDone
    /\ Len(call.df.rows) = 2
    /\ Len(call.areas) < Len(TableAreas)
    /\ \E k \in DOMAIN ret : IsNaN(ret[k].Pont)
    /\ Len(ret) = 2

----------------------------------------------------------------------------
(* Claims about avg_view *)

AvgDone == call.fn = "avg_view"

RECURSIVE SumOfPoints(_)
SumOfPoints(I) ==
    IF I = {} THEN 0
    ELSE LET i == CHOOSE x \in I : TRUE
         IN call.long_df[i].Pont.num + SumOfPoints(I \ {i})

\* row.Szazalek is the mean percentage of the records in I: NaN when I is
\* empty, else (sum of the raw scores / |I|) / 70 * 100, stated without division
IsMeanOf(row, I) ==
    IF I = {} THEN IsNaN(row.Szazalek)
    ELSE /\ ~IsNaN(row.Szazalek)
         /\ row.Szazalek.num * 70 * Cardinality(I)
              = SumOfPoints(I) * 100 * row.Szazalek.den

\* records with a present percentage in the (period, area) group
OverallContributors(p, a) ==
    {i \in DOMAIN call.long_df :
        /\ call.long_df[i].Idoszak = p
        /\ call.long_df[i].Terulet = a
        /\ ~IsNaN(call.long_df[i].Szazalek)}

OverallGroups ==
    {<<call.long_df[i].Idoszak, call.long_df[i].Terulet>> : i \in DOMAIN call.long_df}

\* C7: at the overall level every (Period, Area) group of the input has one
\* row, whose value is the mean of the group's non-missing percentages; the
\* missing ones count neither in the sum nor in the divisor, and a group with
\* nothing but missing percentages has the missing marker, not 0.
C7_OverallMeanSkipsMissing ==
    (AvgDone /\ call.level = OSSZES) =>
        /\ Len(ret) = Cardinality(OverallGroups)
        /\ \A g \in OverallGroups :
             \E k \in DOMAIN ret :
                /\ ret[k].Idoszak = g[1] /\ ret[k].Terulet = g[2]
                /\ IsMeanOf(ret[k], OverallContributors(g[1], g[2]))

\* one group holds a missing and a present percentage, another only missing
C7_Witness ==
    /\ AvgDone /\ call.level = OSSZES
    /\ \E k \in DOMAIN ret : IsNaN(ret[k].Szazalek)
    /\ \E k \in DOMAIN ret :
          /\ ret[k].Szazalek = Rat(50, 1)
          /\ \E i \in DOMAIN call.long_df :
                /\ call.long_df[i].Idoszak = ret[k].Idoszak
                /\ call.long_df[i].Terulet = ret[k].Terulet
                /\ IsNaN(call.long_df[i].Szazalek)

\* records with a present percentage and exactly the row's period, class, area
ClassContributors(row) ==
    {i \in DOMAIN call.long_df :
        /\ call.long_df[i].Idoszak = row.Idoszak
        /\ call.long_df[i].Osztaly = row.Osztaly
        /\ call.long_df[i].Terulet = row.Terulet
        /\ ~IsNaN(call.long_df[i].Szazalek)}

\* C8: at the per-class level no two rows have the same (Period, Class, Area),
\* and every row is the mean of the records with exactly its period, class and
\* area.
C8_ClassMeanNeverMixesClasses ==
    (AvgDone /\ call.level = OSZTALY_LEVEL) =>
        /\ \A j, k \in DOMAIN ret :
              (/\ ret[j].Idoszak = ret[k].Idoszak
               /\ ret[j].Osztaly = ret[k].Osztaly
               /\ ret[j].Terulet = ret[k].Terulet) => j = k
        /\ \A k \in DOMAIN ret : IsMeanOf(ret[k], ClassContributors(ret[k]))

\* two classes with different means for the same period and area
C8_Witness ==
    /\ AvgDone /\ call.level = OSZTALY_LEVEL
    /\ \E j, k \in DOMAIN ret :
          /\ ret[j].Idoszak = ret[k].Idoszak
          /\ ret[j].Terulet = ret[k].Terulet
          /\ ret[j].Osztaly # ret[k].Osztaly
          /\ ~IsNaN(ret[j].Szazalek) /\ ~IsNaN(ret[k].Szazalek)
          /\ ret[j].Szazalek # ret[k].Szazalek

----------------------------------------------------------------------------
(* safe_filename *)

Whitespace == {" ", "\t"}

AsciiLetters ==
    {"A", "B", "C", "D", "E", "F", "G", "H", "I", "J", "K", "L", "M",
     "N", "O", "P", "Q", "R", "S", "T", "U", "V", "W", "X", "Y", "Z",
     "a", "b", "c", "d", "e", "f", "g", "h", "i", "j", "k", "l", "m",
     "n", "o", "p", "q", "r", "s", "t", "u", "v", "w", "x", "y", "z"}

\* the accented letters the pattern of line 18 lists, by code point
ListedAccented ==
    {"U+00C1", "U+00C9", "U+00CD", "U+00D3", "U+00D6", "U+0150", "U+00DA",
     "U+00DC", "U+0170", "U+00E1", "U+00E9", "U+00ED", "U+00F3", "U+00F6",
     "U+0151", "U+00FA", "U+00FC", "U+0171"}

AllowedChars == Digits \cup AsciiLetters \cup ListedAccented \cup {"_", "-", "."}

\* str.strip(): leading and trailing whitespace removed
RECURSIVE LStrip(_)
LStrip(t) ==
    IF t # <<>> /\ Head(t) \in Whitespace THEN LStrip(Tail(t)) ELSE t

RECURSIVE RStrip(_)
RStrip(t) ==
    IF t # <<>> /\ t[Len(t)] \in Whitespace
    THEN RStrip(SubSeq(t, 1, Len(t) - 1)) ELSE t

Strip(t) == RStrip(LStrip(t))

\* re.sub(r"\s+", "_", s): every maximal whitespace run becomes one underscore
RECURSIVE CollapseWhitespace(_)
CollapseWhitespace(t) ==
    IF t = <<>> THEN <<>>
    ELSE IF Head(t) \in Whitespace
         THEN <<"_">> \o CollapseWhitespace(LStrip(t))
         ELSE <<Head(t)>> \o CollapseWhitespace(Tail(t))

\* re.sub(r"[^0-9A-Za-z..._\-\.]", "", s): every other character is deleted
DeleteDisallowed(t) == SelectSeq(t, LAMBDA c : c \in AllowedChars)

PLACEHOLDER == <<"n", "e", "v", "_", "n", "e", "l", "k", "u", "l">>

\* safe_filename without the strip of line 16
safe_filename_no_strip(t) ==
    LET r == DeleteDisallowed(CollapseWhitespace(t)) IN
    IF r = <<>> THEN PLACEHOLDER ELSE r

safe_filename(t) ==
    LET r == DeleteDisallowed(CollapseWhitespace(Strip(t))) IN
    IF r = <<>> THEN PLACEHOLDER ELSE r

----------------------------------------------------------------------------
(* Texts safe_filename is applied to *)

\* whitespace, allowed characters of every kind, a listed accented letter
\* (U+00C1), an accented letter that is not listed (U+00E4), a slash
NameChars == {" ", "\t", "A", "z", "7", "_", ".", "/", "U+00C1", "U+00E4"}

InitName ==
    /\ \E n \in 0..MaxLen : \E t \in [1..n -> NameChars] :
          call = [fn |-> "text", s |-> t]
    /\ ret = NoCall
    /\ SessionIdle

SafeFilename ==
    /\ call.fn = "text"
    /\ call' = [call EXCEPT !.fn = "safe_filename"]
    /\ ret' = safe_filename(call.s)
    /\ UNCHANGED sessionVars

NextName == SafeFilename

SpecName == InitName /\ [][NextName]_vars

----------------------------------------------------------------------------
(* Claims about safe_filename *)

NameDone == call.fn = "safe_filename"

CountOf(t, c) == Cardinality({i \in DOMAIN t : t[i] = c})

\* whitespace runs with a character that is no whitespace on either side
InternalRuns(t) ==
    Cardinality({i \in DOMAIN t :
        /\ t[i] \in Whitespace
        /\ i > 1 /\ t[i - 1] \notin Whitespace
        /\ \E j \in (i + 1)..Len(t) : t[j] \notin Whitespace})

\* C10: the result is never empty and holds only allowed characters (so no
\* whitespace); apart from underscores it is the input's allowed characters
\* in their order; it has one underscore for every underscore and for every
\* internal whitespace run of the input, none for leading or trailing
\* whitespace; an input that leaves nothing yields the placeholder.
C10_SafeFilenameSanitizes ==
    NameDone =>
        LET kept == SelectSeq(call.s, LAMBDA c : c \in AllowedChars /\ c # "_")
            unders == CountOf(call.s, "_") + InternalRuns(call.s)
        IN /\ ret # <<>>
           /\ \A i \in DOMAIN ret : ret[i] \in AllowedChars /\ ret[i] \notin Whitespace
           /\ IF kept = <<>> /\ unders = 0
              THEN ret = PLACEHOLDER
              ELSE /\ SelectSeq(ret, LAMBDA c : c # "_") = kept
                   /\ CountOf(ret, "_") = unders

\* an input with leading whitespace, an internal whitespace run and a
\* character that is deleted
C10_Witness ==
    /\ NameDone
    /\ call.s # <<>> /\ Head(call.s) \in Whitespace
    /\ InternalRuns(call.s) >= 1
    /\ \E i \in DOMAIN call.s : call.s[i] \notin AllowedChars \cup Whitespace
    /\ ret # PLACEHOLDER

----------------------------------------------------------------------------
(* The export: file names and archives *)

\* b"" and the bytes of a ZIP archive.  An archive is its list of entry
\* names; its size is positive even without entries (the end record).
EmptyBytes == [size |-> 0, entries |-> <<>>]
ZipBytes(entries) == [size |-> Len(entries) + 1, entries |-> entries]

README == <<"README.txt">>

BarSuffix(a) ==
    <<"_", "_", "oszlopdiagram", ".">> \o (IF a = "app.py" THEN <<"html">> ELSE <<"png">>)
RadarSuffix(a) ==
    <<"_", "_", "radar", ".">> \o (IF a = "app.py" THEN <<"html">> ELSE <<"png">>)

\* figures_to_zip_html of app.py: every item, then the README
figures_to_zip_html(names) == ZipBytes(names \o <<README>>)

\* figures_to_zip_png of app4.py: every item, nothing else
figures_to_zip_png(names) == ZipBytes(names)

figures_to_zip(a, names) ==
    IF a = "app.py" THEN figures_to_zip_html(names) ELSE figures_to_zip_png(names)

\* export_df[["Nev", "Osztaly"]].dropna().drop_duplicates()
\*     .sort_values(["Osztaly", "Nev"]): pairs <<name, class>>
ExportNames(export_df) ==
    SortByRank(
        {[item |-> <<export_df[i].Nev, export_df[i].Osztaly>>,
          rank |-> <<TextRank(export_df[i].Osztaly.text),
                     TextRank(export_df[i].Nev.text)>>] :
            i \in {j \in DOMAIN export_df :
                      /\ export_df[j].Nev.kind # "empty"
                      /\ export_df[j].Osztaly.kind # "empty"}})

\* f"{safe_filename(osztaly)}__{safe_filename(nev)}"
BaseName(pair) ==
    safe_filename(pair[2].text) \o <<"_", "_">> \o safe_filename(pair[1].text)

\* the file names the loop of lines 307-322 appends: bar chart, then radar
\* chart, of every pair in turn
ReportFiles(a, export_names) ==
    [k \in 1..(2 * Len(export_names)) |->
        BaseName(export_names[(k + 1) \div 2])
        \o (IF k % 2 = 1 THEN BarSuffix(a) ELSE RadarSuffix(a))]

ZipName(a, scope) ==
    IF a = "app.py"
    THEN (IF scope = SCOPE_ALL THEN "diagramok_html_minden_osztaly.zip"
          ELSE "diagramok_html_szurt.zip")
    ELSE (IF scope = SCOPE_ALL THEN "diagramok_minden_osztaly.zip"
          ELSE "diagramok_szurt.zip")

----------------------------------------------------------------------------
(* st.session_state *)

Get(ss, k, default) == IF k \in DOMAIN ss THEN ss[k] ELSE default
Set(ss, k, v) == (k :> v) @@ ss
SetDefault(ss, k, v) == IF k \in DOMAIN ss THEN ss ELSE (k :> v) @@ ss

\* the defaults alone; a stored file name that differs changes nothing
PrepareZipStateWithoutReset(ss, zip_name) ==
    SetDefault(SetDefault(SetDefault(ss, "zip_ready", FALSE),
                          "zip_bytes", EmptyBytes),
               "zip_filename", zip_name)

\* lines 280-287: the defaults, then the reset when the scope's file name
\* differs from the stored one
PrepareZipState(ss, zip_name) ==
    LET d == SetDefault(SetDefault(SetDefault(ss, "zip_ready", FALSE),
                                   "zip_bytes", EmptyBytes),
                        "zip_filename", zip_name)
    IN IF d["zip_filename"] # zip_name
       THEN Set(Set(Set(d, "zip_filename", zip_name), "zip_ready", FALSE),
                "zip_bytes", EmptyBytes)
       ELSE d

\* the flag is lowered, the stored bytes are left as they are
ClearZipReadyOnly(ss) == Set(ss, "zip_ready", FALSE)

\* lines 290-291 and 334-335
ClearZip(ss) == Set(Set(ss, "zip_ready", FALSE), "zip_bytes", EmptyBytes)

\* lines 327-330
StoreZip(ss, zip_bytes, zip_name) ==
    Set(Set(Set(Set(ss, "zip_bytes", zip_bytes), "zip_ready", TRUE),
            "zip_filename", zip_name), "zip_size", zip_bytes.size)

\* line 338: both values truthy
DownloadOffered(ss) ==
    Get(ss, "zip_ready", FALSE) /\ Get(ss, "zip_bytes", EmptyBytes).size > 0

----------------------------------------------------------------------------
(* main: one script run *)

\* selectbox over no options returns None, which equals no cell
NonePick == [kind |-> "none", text |-> <<>>, value |-> 0]

Present(cells) == {c \in cells : c.kind # "empty"}

\* lines 223-225
Filtered(long_all, sc) ==
    IF sc = MIND THEN long_all
    ELSE SelectSeq(long_all, LAMBDA rec : rec.Osztaly = sc)

\* line 219: the classes offered by the filter
Classes(long_all) == Present({long_all[i].Osztaly : i \in DOMAIN long_all})

\* the sorted options of the second selectbox of the view (lines 228, 235)
PickOptions(filtered, vm, sc) ==
    LET opts ==
          IF vm = VIEW_STUDENT
          THEN Present({filtered[i].Nev : i \in DOMAIN filtered})
          ELSE IF vm = VIEW_CLASS /\ sc = MIND
          THEN LET d == avg_view(filtered, OSZTALY_LEVEL)
               IN {d[i].Osztaly : i \in DOMAIN d}
          ELSE {}
    IN SortByRank({[item |-> c, rank |-> <<TextRank(c.text)>>] : c \in opts})

\* the value of a selectbox the user leaves alone: its first option, None
\* when it has no option
FirstOption(options) == IF options = <<>> THEN NonePick ELSE options[1]

\* lines 227-242: the data of the two charts
ViewData(filtered, vm, sc, pick) ==
    IF vm = VIEW_STUDENT
    THEN SelectSeq(filtered, LAMBDA rec : rec.Nev = pick)
    ELSE IF vm = VIEW_CLASS
    THEN LET d == avg_view(filtered, OSZTALY_LEVEL)
         IN IF sc = MIND THEN SelectSeq(d, LAMBDA row : row.Osztaly = pick) ELSE d
    ELSE avg_view(filtered, OSSZES)

Stopped(stage, msg, ss) ==
    [stage |-> stage, error |-> msg, df1 |-> None, df2 |-> None,
     areas |-> <<>>, periods |-> <<>>, long_all |-> <<>>, data |-> <<>>,
     download |-> FALSE, built |-> FALSE, outcomes |-> {"ok"}, ss |-> ss]

\* what the try block of lines 305-336 can do
Outcomes(export_names) ==
    {"ok", "zip_fails"} \cup (IF export_names = <<>> THEN {} ELSE {"render_fails"})

\* One run of main with the given uploader and widget values.  click: the
\* ZIP button was pressed; outcome: how the export goes if it was.
MainRun(a, up, vm, sc, es, ss, click, outcome) ==
    IF up = None THEN Stopped("no_file", "", ss)
    ELSE
      LET r == read_two_periods(up[1]) IN
      IF ~r.ok THEN Stopped("read_error", r.error, ss)
      ELSE
        LET long_all == LongAll(r.df1[1], r.df2, r.areas, r.period_labels)
            filtered == Filtered(long_all, sc)
            export_df == IF es = SCOPE_ALL THEN long_all ELSE filtered
            zip_name == ZipName(a, es)
            ss1 == PrepareZipState(ss, zip_name)
            export_names == ExportNames(export_df)
            ok == click /\ outcome = "ok"
            failed == click /\ outcome # "ok"
            ss2 == IF ok
                   THEN StoreZip(ClearZip(ss1),
                                 figures_to_zip(a, ReportFiles(a, export_names)),
                                 zip_name)
                   ELSE IF failed THEN ClearZip(ClearZip(ss1))
                   ELSE ss1
        IN [stage |-> IF ok THEN "rerun" ELSE "done",
            error |-> IF failed THEN "Nem sikerult a ZIP keszites" ELSE "",
            df1 |-> r.df1, df2 |-> r.df2, areas |-> r.areas,
            periods |-> r.period_labels, long_all |-> long_all,
            data |-> ViewData(filtered, vm, sc,
                              FirstOption(PickOptions(filtered, vm, sc))),
            download |-> ~ok /\ DownloadOffered(ss2),
            built |-> ok, outcomes |-> Outcomes(export_names), ss |-> ss2]

\* the classes the filter offers for this uploader value (line 219)
RunClasses(up) ==
    IF up = None THEN {}
    ELSE LET r == read_two_periods(up[1]) IN
         IF ~r.ok THEN {}
         ELSE Classes(LongAll(r.df1[1], r.df2, r.areas, r.period_labels))

----------------------------------------------------------------------------
(* The workbooks of a session *)

AB_Space == TextCell(<<"A", " ", "B">>)
AB_Under == TextCell(<<"A", "_", "B">>)

\* (name, class) of a student row: two names of one class that differ only
\* by a space and an underscore, a student of another class, a row without
\* a name
SessionIdentities ==
    {<<AB_Space, Class5a>>, <<AB_Under, Class5a>>, <<Bela, Class6b>>,
     <<EmptyCell, Class6b>>}

\* the students of the workbooks whose header rows vary; the last row has no
\* class
StandardRoster == <<<<Anna, Class5a>>, <<Bela, Class6b>>, <<Bela, EmptyCell>>>>

\* the header rows of the workbooks whose students vary: two periods that
\* share one of their areas
TwoPeriodLayout ==
    <<<<"Nev", "Osztaly", "Empatia", "Onismeret">>,
      <<"Tanulo", "Csoport", "Onismeret", "Kitartas">>>>

\* the score of student i in the j-th area column of a sheet
ScoreOf(sheet, i, j) ==
    IF (sheet + i + j) % 3 = 0 THEN TextCell(<<"N", "/", "A">>)
    ELSE NumCell(35 * ((sheet + i + j) % 3))

SessionSheet(sheet, name, cols, roster) ==
    [name |-> name, columns |-> cols,
     rows |-> [i \in DOMAIN roster |->
                  SubSeq(roster[i] \o [j \in 1..MaxAreas + 1 |-> ScoreOf(sheet, i, j)],
                         1, Len(cols))]]

\* header rows of the sheets of a workbook, first sheet first
Layouts ==
    {<<>>,
     <<<<"Nev", "Osztaly">>>>,
     <<<<"Tanulo", "Csoport", "Empatia", "Onismeret">>>>,
     <<<<"Nev", "Osztaly", "Empatia", "Onismeret">>, <<"Nev", "Osztaly">>>>,
     <<<<"Nev", "Osztaly", "Empatia", "Onismeret">>,
       <<"Nev", "Osztaly", "Kitartas">>>>,
     TwoPeriodLayout,
     <<<<"Nev", "Osztaly", "Empatia">>, <<"Nev", "Osztaly", "Empatia">>,
       <<"Nev", "Osztaly">>>>}

SessionSheetNames == <<"2024 osz", "2025 tavasz", "Jegyzet">>

SessionWorkbook(layout, roster) ==
    [i \in DOMAIN layout |->
        SessionSheet(i, SessionSheetNames[i], layout[i], roster)]

Apps == {"app.py", "app4.py"}

----------------------------------------------------------------------------
(* The session: every action is one user interaction and the script run(s)
   it triggers *)

Init ==
    /\ call = NoCall
    /\ ret = NoCall
    /\ app \in Apps
    /\ \/ \E layout \in Layouts : file = SessionWorkbook(layout, StandardRoster)
       \/ \E n \in 0..MaxStudents : \E roster \in [1..n -> SessionIdentities] :
             file = SessionWorkbook(TwoPeriodLayout, roster)
    /\ uploaded = None
    /\ view_mode = VIEW_STUDENT
    /\ selected_class = MIND
    /\ export_scope = SCOPE_FILTERED
    /\ session_state = NoKeys
    /\ run = NoRun

\* The script runs with the given uploader and widget values; a run that ends
\* in st.rerun() is followed at once by a second run without the click.  The
\* second selectbox of the view keeps its first option.  Widgets of a run
\* that stopped before drawing them fall back to their first option.
Script(up, vm, sc, es, click) ==
    \E outcome \in (IF click THEN {"ok", "zip_fails", "render_fails"} ELSE {"ok"}) :
      \E r1 \in {MainRun(app, up, vm, sc, es, session_state, click, outcome)} :
        \E r \in {IF r1.stage = "rerun"
                  THEN MainRun(app, up, vm, sc, es, r1.ss, FALSE, "ok")
                  ELSE r1} :
          /\ outcome \in r1.outcomes
          /\ uploaded' = up
          /\ view_mode' = IF r.stage = "done" THEN vm ELSE VIEW_STUDENT
          /\ selected_class' = IF r.stage = "done" THEN sc ELSE MIND
          /\ export_scope' = IF r.stage = "done" THEN es ELSE SCOPE_FILTERED
          /\ session_state' = r.ss
          /\ run' = [stage |-> r.stage, error |-> r.error,
                     df1 |-> r.df1, df2 |-> r.df2, areas |-> r.areas,
                     periods |-> r.periods, long_all |-> r.long_all,
                     data |-> r.data, download |-> r.download,
                     built |-> r1.built,
                     failed |-> click /\ outcome # "ok"]
          /\ UNCHANGED <<call, ret, app, file>>

Drawn == run.stage = "done"

\* the page is opened or reloaded
Rerun ==
    /\ run.stage \in {"not_run", "no_file", "read_error", "done"}
    /\ Script(uploaded, view_mode, selected_class, export_scope, FALSE)

\* the user puts the workbook into the uploader
Upload ==
    /\ uploaded = None
    /\ Script(Some(file), view_mode, selected_class, export_scope, FALSE)

RemoveFile ==
    /\ uploaded # None
    /\ Script(None, view_mode, selected_class, export_scope, FALSE)

SetViewMode ==
    /\ Drawn
    /\ \E vm \in ViewModes \ {view_mode} :
          Script(uploaded, vm, selected_class, export_scope, FALSE)

SetClassFilter ==
    /\ Drawn
    /\ \E sc \in (RunClasses(uploaded) \cup {MIND}) \ {selected_class} :
          Script(uploaded, view_mode, sc, export_scope, FALSE)

SetExportScope ==
    /\ Drawn
    /\ \E es \in ExportScopes \ {export_scope} :
          Script(uploaded, view_mode, selected_class, es, FALSE)

\* the button "ZIP elkeszitese"
ClickBuild ==
    /\ Drawn
    /\ Script(uploaded, view_mode, selected_class, export_scope, TRUE)

Next ==
    \/ Rerun
    \/ Upload
    \/ RemoveFile
    \/ SetViewMode
    \/ SetClassFilter
    \/ SetExportScope
    \/ ClickBuild

Spec == Init /\ [][Next]_vars

----------------------------------------------------------------------------
(* Claims about a load *)

RunHappened == run.stage # "not_run"

SheetAreas(wb, i) == {wb[i].columns[k] : k \in 3..Len(wb[i].columns)}

\* the four ways a workbook is malformed
Malformed(wb) ==
    \/ Len(wb) = 0
    \/ Len(wb) >= 1 /\ Len(wb[1].columns) < 3
    \/ Len(wb) >= 2 /\ Len(wb[2].columns) < 3
    \/ Len(wb) >= 2 /\ SheetAreas(wb, 1) \cap SheetAreas(wb, 2) = {}

\* C3: a run over a malformed workbook ends in the read error: the error is
\* shown, no table and no area list is returned, no long-form data is
\* derived, and the script stops before the widgets and the export.
C3_MalformedWorkbookStopsLoad ==
    (RunHappened /\ uploaded # None /\ Malformed(uploaded[1])) =>
        /\ run.stage = "read_error"
        /\ run.error # ""
        /\ run.df1 = None /\ run.df2 = None
        /\ run.areas = <<>> /\ run.periods = <<>>
        /\ run.long_all = <<>>
        /\ ~run.download

\* two sheets of three or more columns each that share no area, rejected
C3_Witness ==
    /\ RunHappened /\ uploaded # None
    /\ Len(uploaded[1]) >= 2
    /\ Len(uploaded[1][1].columns) >= 3 /\ Len(uploaded[1][2].columns) >= 3
    /\ uploaded[1][1].rows # <<>>
    /\ run.stage = "read_error"

OneSheet(wb) == Len(wb) = 1 /\ Len(wb[1].columns) >= 3

\* C4: a run over a workbook of one sheet with three or more columns loads
\* it with no Period 2 table, the sheet's name as the only period label and
\* all of the sheet's area columns as the area list, and every long-form
\* record carries that one period label.
C4_OneSheetIsOnePeriod ==
    (RunHappened /\ uploaded # None /\ OneSheet(uploaded[1])) =>
        LET sheet == uploaded[1][1] IN
        /\ run.stage = "done"
        /\ run.df2 = None
        /\ run.periods = <<sheet.name>>
        /\ run.areas = SubSeq(sheet.columns, 3, Len(sheet.columns))
        /\ Len(run.long_all) = Len(sheet.rows) * (Len(sheet.columns) - 2)
        /\ \A k \in DOMAIN run.long_all : run.long_all[k].Idoszak = sheet.name

\* a one-sheet workbook with two area columns and students, loaded
C4_Witness ==
    /\ RunHappened /\ uploaded # None /\ OneSheet(uploaded[1])
    /\ Len(uploaded[1][1].columns) = 4
    /\ run.long_all # <<>>

----------------------------------------------------------------------------
(* Claims about the export *)

\* the records of the export scope of the last run
InExportScope(rec) ==
    export_scope = SCOPE_ALL \/ selected_class = MIND \/ rec.Osztaly = selected_class

\* the distinct (Name, Class) pairs of the scope, rows lacking either left out
ScopePairs ==
    {<<run.long_all[i].Nev, run.long_all[i].Osztaly>> :
        i \in {j \in DOMAIN run.long_all :
                  /\ InExportScope(run.long_all[j])
                  /\ run.long_all[j].Nev.kind # "empty"
                  /\ run.long_all[j].Osztaly.kind # "empty"}}

StoredEntries == session_state["zip_bytes"].entries

\* C9: the archive of a successful export over a scope of N distinct (Name,
\* Class) pairs has 2N report files and one documentation file, and no two
\* of its entries have the same name.
C9_ArchiveHasTwoFilesPerPairAndReadme ==
    (RunHappened /\ run.built) =>
        /\ Cardinality({k \in DOMAIN StoredEntries : StoredEntries[k] # README})
             = 2 * Cardinality(ScopePairs)
        /\ Cardinality({k \in DOMAIN StoredEntries : StoredEntries[k] = README}) = 1
        /\ IsInjective(StoredEntries)

\* the part of C9 that holds in both scripts: two report entries per pair
C9_TwoReportEntriesPerPair ==
    (RunHappened /\ run.built) =>
        Cardinality({k \in DOMAIN StoredEntries : StoredEntries[k] # README})
          = 2 * Cardinality(ScopePairs)

\* app.py packs two students whose names sanitize alike: the README is
\* there, the entry names repeat
C9_DuplicateNamesReached ==
    /\ RunHappened /\ run.built /\ app = "app.py"
    /\ ~IsInjective(StoredEntries)

\* app4.py packs an archive: no README in it
C9_NoReadmeReached ==
    /\ RunHappened /\ run.built /\ app = "app4.py"
    /\ \A k \in DOMAIN StoredEntries : StoredEntries[k] # README

----------------------------------------------------------------------------
(* Claims about a failed export *)

\* the last script run was an export whose rendering or packaging failed
ExportFailed == RunHappened /\ run.failed

\* C11: after an export run in which rendering or packaging failed, zip_ready
\* is false, zip_bytes is empty (nothing partial is stored), the error has
\* been reported, and that run offered no download.
C11_FailedExportLeavesNoArtifact ==
    ExportFailed =>
        /\ session_state["zip_ready"] = FALSE
        /\ session_state["zip_bytes"] = EmptyBytes
        /\ run.error # ""
        /\ ~run.download
        /\ ~run.built
        /\ run.stage = "done"

\* an export over a scope with students failed in a session that had stored an
\* archive before (zip_size is written only with a finished archive)
C11_Witness ==
    /\ ExportFailed
    /\ ScopePairs # {}
    /\ "zip_size" \in DOMAIN session_state

\* an archive is stored and ready
ArtifactReady == DownloadOffered(session_state)

\* the archive an export of the last run's scope packs
ExportFrame ==
    IF export_scope = SCOPE_ALL THEN run.long_all
    ELSE Filtered(run.long_all, selected_class)

FreshArchive == figures_to_zip(app, ReportFiles(app, ExportNames(ExportFrame)))

\* C12: an export run that starts with an archive ready and fails leaves that
\* archive stored and ready; one that succeeds has the fresh archive stored
\* and ready in its place.
C12_FailedExportKeepsEarlierArtifact ==
    [][ArtifactReady =>
          /\ ExportFailed' =>
                /\ session_state'["zip_ready"] = TRUE
                /\ session_state'["zip_bytes"] = session_state["zip_bytes"]
          /\ (RunHappened' /\ run'.built) =>
                /\ session_state'["zip_ready"] = TRUE
                /\ session_state'["zip_bytes"] = FreshArchive']_vars

\* the part of C12 that holds: after a successful export the fresh archive
\* is the one stored, and it is ready
C12_SuccessfulExportStoresFreshArchive ==
    (RunHappened /\ run.built) =>
        /\ ArtifactReady
        /\ session_state["zip_bytes"] = FreshArchive

\* a failed export in a session whose earlier archive (its size is still
\* recorded) is gone
C12_EarlierArtifactLost ==
    /\ ExportFailed
    /\ "zip_size" \in DOMAIN session_state
    /\ session_state["zip_size"] > 0
    /\ session_state["zip_bytes"] = EmptyBytes
    /\ ~ArtifactReady

----------------------------------------------------------------------------
(* Claims about the download button *)

\* the last run built and stored an archive
ExportBuilt == RunHappened /\ run.built

\* the download button was drawn by the last run
Offered == RunHappened /\ run.download

\* the file name of the scope option selected in the last run
ScopeFileName == ZipName(app, export_scope)

\* whenever the button is offered, the flag is set, the bytes are there and
\* the stored file name is the selected scope's
OfferedMatchesScope ==
    Offered =>
        /\ session_state["zip_ready"] = TRUE
        /\ session_state["zip_bytes"] # EmptyBytes
        /\ session_state["zip_bytes"].size > 0
        /\ session_state["zip_filename"] = ScopeFileName

\* a run that builds files the archive under the scope selected in that run;
\* an archive that is ready after a run that built nothing is the archive
\* that was ready before, under the name it had; a run drawn with another
\* scope option than the run before it leaves nothing ready
ArchiveFollowsScope ==
    /\ ExportBuilt' => session_state'["zip_filename"] = ScopeFileName'
    /\ (ArtifactReady' /\ ~ExportBuilt') =>
          /\ ArtifactReady
          /\ session_state'["zip_bytes"] = session_state["zip_bytes"]
          /\ session_state'["zip_filename"] = session_state["zip_filename"]
    /\ (Drawn /\ Drawn' /\ export_scope' # export_scope) =>
          /\ session_state'["zip_ready"] = FALSE
          /\ session_state'["zip_bytes"] = EmptyBytes
          /\ ~Offered'

\* C13: along every sequence of script runs the download button is offered
\* only with zip_ready true and zip_bytes non-empty, and then the stored
\* file name is that of the selected scope and the stored archive was built
\* under that scope option (the name is written with the archive and kept
\* with it; the two options have different names); a switch of the scope
\* option leaves the session not ready, with empty bytes, until a build
\* succeeds.
C13_DownloadOnlyForSelectedScope ==
    []OfferedMatchesScope /\ [][ArchiveFollowsScope]_vars

\* the scope was switched to all classes, an archive was built there, and a
\* later run still offers it
C13_Witness ==
    /\ Offered /\ ~run.built
    /\ export_scope = SCOPE_ALL
    /\ session_state["zip_filename"] = ScopeFileName
    /\ ScopePairs # {}

====
